---- MODULE Spec2Model ----
(***************************************************************************)
(* Model of update_comfyui.py: git_pull_with_resolve (one directory) and   *)
(* update_project (main checkout, then every custom node directory).       *)
(*                                                                         *)
(* A directory's repository is a record                                    *)
(*   git      - the directory holds a .git entry                           *)
(*   stash    - the stash list, newest entry first; an entry is the set of *)
(*              local modifications it holds                               *)
(*   mods     - tracked modifications of the working tree relative to HEAD *)
(*   unmerged - the index holds unmerged (conflicted) paths                *)
(*   rebasing - a rebase is in progress (HEAD is detached)                 *)
(*   base     - the upstream commit the local branch sits on               *)
(*   ahead    - the local branch has commits of its own on top of base     *)
(*   origin   - the remote-tracking ref origin/<branch>                    *)
(*   remote   - the tip of the branch on the remote                        *)
(* Every git command is an operator from a repository to the set of        *)
(* outcomes [rc, repo] the command can produce there.                      *)
(***************************************************************************)
EXTENDS Integers, Sequences, FiniteSets, TLC

MaxStash == 3
MaxCommit == 1

Mods == {"m1", "m2"}
Main == "comfyui"
Listing == <<"nodeA", "__pycache__", "nodeB">>
Entries == {Listing[k] : k \in 1..Len(Listing)}
Dirs == {Main} \cup Entries

VARIABLES repos, dir, pc, force, verbose, issues, ops, obs, narrated, prev,
          ppc, idx, acc, rets, fs

syncVars == <<repos, dir, pc, force, verbose, issues, ops, obs, narrated>>
projVars == <<ppc, idx, acc, rets, fs>>
vars == <<repos, dir, pc, force, verbose, issues, ops, obs, narrated, prev,
          ppc, idx, acc, rets, fs>>

NoRepo == [git |-> FALSE, stash |-> <<>>, mods |-> {}, unmerged |-> FALSE,
           rebasing |-> FALSE, base |-> 0, ahead |-> FALSE, origin |-> 0,
           remote |-> 0]

Out(code, r) == [rc |-> code, repo |-> r]

Clean(r) == r.mods = {} /\ ~r.unmerged

(* f"Failed to apply stashed changes in {directory}" *)
FailedApply(d) == <<"Failed to apply stashed changes in ", d>>

(* f"Unable to resolve conflicts in {directory}. Manual intervention required." *)
Unable(d) == <<"Unable to resolve conflicts in ", d, ". Manual intervention required.">>

(* ---------------------------- git commands ----------------------------- *)

(* git stash list: stdout is non-empty iff the stash list is *)
GitStashList(r) == r.stash # <<>>

(* git stash apply: refused when the index is unmerged or the stash touches
   locally modified paths; otherwise it applies, cleanly or with conflicts
   that leave unmerged paths behind. The stash entry is kept either way. *)
GitStashApply(r) ==
  IF r.unmerged \/ (r.mods \cap Head(r.stash)) # {}
  THEN {Out(1, r)}
  ELSE {Out(0, [r EXCEPT !.mods = r.mods \cup Head(r.stash)]),
        Out(1, [r EXCEPT !.mods = r.mods \cup Head(r.stash), !.unmerged = TRUE])}

(* git diff --quiet HEAD: exit status 1 iff the tree differs from HEAD *)
GitDiffQuiet(r) == IF Clean(r) THEN 0 ELSE 1

(* git reset --hard HEAD: index and working tree become HEAD's *)
GitResetHardHead(r) == {Out(0, [r EXCEPT !.mods = {}, !.unmerged = FALSE])}

(* git stash: fails on an unmerged index, otherwise pushes the local
   modifications as the newest entry and cleans the tree *)
GitStash(r) ==
  IF r.unmerged THEN {Out(1, r)}
  ELSE IF r.mods = {} THEN {Out(0, r)}
  ELSE {Out(0, [r EXCEPT !.stash = <<r.mods>> \o r.stash, !.mods = {}])}

(* git pull --rebase: refused on a dirty or unmerged tree; with a rebase in
   progress it fails (after possibly fetching); otherwise the fetch may fail,
   and the rebase of local commits onto new upstream commits may stop on a
   conflict, leaving the rebase in progress. *)
GitPullRebase(r) ==
  IF ~Clean(r) THEN {Out(1, r)}
  ELSE IF r.rebasing THEN {Out(1, r), Out(1, [r EXCEPT !.origin = r.remote])}
  ELSE {Out(1, r),
        Out(0, [r EXCEPT !.origin = r.remote, !.base = r.remote])}
       \cup (IF r.ahead /\ r.base < r.remote
             THEN {Out(1, [r EXCEPT !.origin = r.remote, !.rebasing = TRUE,
                                    !.unmerged = TRUE])}
             ELSE {})

(* git fetch --all *)
GitFetchAll(r) == {Out(1, r), Out(0, [r EXCEPT !.origin = r.remote])}

(* git reset --hard origin/$(git rev-parse --abbrev-ref HEAD): on a branch
   the branch moves to origin/<branch>; with a rebase in progress HEAD is
   detached, the name resolves to "HEAD", and the command either fails
   (no origin/HEAD) or moves the detached HEAD only: the branch ref and the
   rebase state stay as they were. *)
GitResetHardUpstream(r) ==
  IF r.rebasing
  THEN {Out(1, r), Out(0, [r EXCEPT !.mods = {}, !.unmerged = FALSE])}
  ELSE {Out(0, [r EXCEPT !.base = r.origin, !.ahead = FALSE, !.mods = {},
                         !.unmerged = FALSE])}

(* git rebase --strategy-option=theirs: refused with a rebase in progress or
   a dirty tree; otherwise rebases onto origin/<branch>, and can still stop
   on a conflict the strategy option does not settle. *)
GitRebaseTheirs(r) ==
  IF r.rebasing \/ ~Clean(r) THEN {Out(1, r)}
  ELSE {Out(0, [r EXCEPT !.base = r.origin])}
       \cup (IF r.ahead /\ r.base < r.origin
             THEN {Out(1, [r EXCEPT !.rebasing = TRUE, !.unmerged = TRUE])}
             ELSE {})

(* git rebase --abort: fails when no rebase is in progress, otherwise
   restores the branch and the tree to their pre-rebase state *)
GitRebaseAbort(r) ==
  IF r.rebasing
  THEN {Out(0, [r EXCEPT !.rebasing = FALSE, !.unmerged = FALSE, !.mods = {}])}
  ELSE {Out(1, r)}

(* ------------------------ git_pull_with_resolve ------------------------ *)

NoObs == [entry |-> NoRepo, applyRc |-> -1, dirty |-> FALSE, chkMods |-> {},
          atPull |-> NoRepo, pullRc |-> -1, theirsRc |-> -1]

Say(cond) == narrated' = (narrated \/ cond)

(* lines 49-51: entry, issues = [] *)
Enter(d, f, v) ==
  /\ pc = "idle"
  /\ Len(repos[d].stash) < MaxStash
  /\ dir' = d /\ force' = f /\ verbose' = v
  /\ issues' = <<>> /\ ops' = <<>> /\ narrated' = FALSE
  /\ obs' = [NoObs EXCEPT !.entry = repos[d]]
  /\ pc' = "check_git"
  /\ UNCHANGED repos

(* the metadata check without its return *)
NotARepo_FallsThrough ==
  /\ pc = "check_git" /\ ~repos[dir].git
  /\ Say(verbose)
  /\ pc' = "diff"
  /\ UNCHANGED <<repos, dir, force, verbose, issues, ops, obs, prev, projVars>>

(* lines 54-57: no .git entry, return at once *)
NotARepo ==
  /\ pc = "check_git" /\ ~repos[dir].git
  /\ Say(verbose)
  /\ pc' = "ret"
  /\ UNCHANGED <<repos, dir, force, verbose, issues, ops, obs, prev, projVars>>

(* lines 60-63: git stash list *)
CheckStashes ==
  /\ pc = "check_git" /\ repos[dir].git
  /\ ops' = Append(ops, "stash list")
  /\ IF GitStashList(repos[dir])
     THEN Say(verbose) /\ pc' = "apply"
     ELSE Say(FALSE) /\ pc' = "diff"
  /\ UNCHANGED <<repos, dir, force, verbose, issues, obs, prev, projVars>>

(* a failed stash apply that gives up on the directory *)
StashApply_GivesUp ==
  /\ pc = "apply"
  /\ \E o \in GitStashApply(repos[dir]) :
       /\ repos' = [repos EXCEPT ![dir] = o.repo]
       /\ obs' = [obs EXCEPT !.applyRc = o.rc]
       /\ issues' = IF o.rc # 0 THEN Append(issues, FailedApply(dir)) ELSE issues
       /\ pc' = IF o.rc # 0 THEN "ret" ELSE "diff"
  /\ ops' = Append(ops, "stash apply")
  /\ UNCHANGED <<dir, force, verbose, narrated, prev, projVars>>

(* lines 64-66: git stash apply *)
StashApply ==
  /\ pc = "apply"
  /\ \E o \in GitStashApply(repos[dir]) :
       /\ repos' = [repos EXCEPT ![dir] = o.repo]
       /\ obs' = [obs EXCEPT !.applyRc = o.rc]
       /\ issues' = IF o.rc # 0 THEN Append(issues, FailedApply(dir)) ELSE issues
  /\ ops' = Append(ops, "stash apply")
  /\ pc' = "diff"
  /\ UNCHANGED <<dir, force, verbose, narrated, prev, projVars>>

(* the divergence check with the force branch taken whatever the policy *)
DiffCheck_AlwaysDiscards ==
  /\ pc = "diff"
  /\ ops' = Append(ops, "diff")
  /\ obs' = [obs EXCEPT !.dirty = (GitDiffQuiet(repos[dir]) # 0),
                        !.chkMods = repos[dir].mods]
  /\ IF GitDiffQuiet(repos[dir]) # 0
     THEN Say(verbose) /\ pc' = "discard"
     ELSE Say(FALSE) /\ pc' = "pull"
  /\ UNCHANGED <<repos, dir, force, verbose, issues, prev, projVars>>

(* lines 69-73, 75-77: git diff --quiet HEAD and the branch on force *)
DiffCheck ==
  /\ pc = "diff"
  /\ ops' = Append(ops, "diff")
  /\ obs' = [obs EXCEPT !.dirty = (GitDiffQuiet(repos[dir]) # 0),
                        !.chkMods = repos[dir].mods]
  /\ IF GitDiffQuiet(repos[dir]) # 0
     THEN Say(verbose) /\ pc' = (IF force THEN "discard" ELSE "shelve")
     ELSE Say(FALSE) /\ pc' = "pull"
  /\ UNCHANGED <<repos, dir, force, verbose, issues, prev, projVars>>

(* line 74: git reset --hard HEAD *)
Discard ==
  /\ pc = "discard"
  /\ \E o \in GitResetHardHead(repos[dir]) :
       repos' = [repos EXCEPT ![dir] = o.repo]
  /\ ops' = Append(ops, "reset --hard HEAD")
  /\ pc' = "pull"
  /\ UNCHANGED <<dir, force, verbose, issues, obs, narrated, prev, projVars>>

(* the shelving step with the local modifications thrown away instead *)
Shelve_Discards ==
  /\ pc = "shelve"
  /\ \E o \in GitResetHardHead(repos[dir]) :
       repos' = [repos EXCEPT ![dir] = o.repo]
  /\ ops' = Append(ops, "stash")
  /\ pc' = "pull"
  /\ UNCHANGED <<dir, force, verbose, issues, obs, narrated, prev, projVars>>

(* line 78: git stash *)
Shelve ==
  /\ pc = "shelve"
  /\ \E o \in GitStash(repos[dir]) :
       repos' = [repos EXCEPT ![dir] = o.repo]
  /\ ops' = Append(ops, "stash")
  /\ pc' = "pull"
  /\ UNCHANGED <<dir, force, verbose, issues, obs, narrated, prev, projVars>>

(* lines 81-86, 91: git pull --rebase and the branch on its exit status *)
Pull ==
  /\ pc = "pull"
  /\ \E o \in GitPullRebase(repos[dir]) :
       /\ repos' = [repos EXCEPT ![dir] = o.repo]
       /\ obs' = [obs EXCEPT !.atPull = repos[dir], !.pullRc = o.rc]
       /\ IF o.rc # 0
          THEN Say(verbose) /\ pc' = (IF force THEN "fetch" ELSE "theirs")
          ELSE Say(FALSE) /\ pc' = "finish"
  /\ ops' = Append(ops, "pull --rebase")
  /\ UNCHANGED <<dir, force, verbose, issues, prev, projVars>>

(* lines 87-89: git fetch --all *)
FetchAll ==
  /\ pc = "fetch"
  /\ \E o \in GitFetchAll(repos[dir]) :
       repos' = [repos EXCEPT ![dir] = o.repo]
  /\ ops' = Append(ops, "fetch --all")
  /\ Say(verbose)
  /\ pc' = "reset_upstream"
  /\ UNCHANGED <<dir, force, verbose, issues, obs, prev, projVars>>

(* line 90: git reset --hard origin/$(git rev-parse --abbrev-ref HEAD) *)
ResetUpstream ==
  /\ pc = "reset_upstream"
  /\ \E o \in GitResetHardUpstream(repos[dir]) :
       repos' = [repos EXCEPT ![dir] = o.repo]
  /\ ops' = Append(ops, "reset --hard upstream")
  /\ pc' = "finish"
  /\ UNCHANGED <<dir, force, verbose, issues, obs, narrated, prev, projVars>>

(* lines 92-97: git rebase --strategy-option=theirs *)
RebaseTheirs ==
  /\ pc = "theirs"
  /\ \E o \in GitRebaseTheirs(repos[dir]) :
       /\ repos' = [repos EXCEPT ![dir] = o.repo]
       /\ obs' = [obs EXCEPT !.theirsRc = o.rc]
       /\ IF o.rc # 0
          THEN issues' = Append(issues, Unable(dir)) /\ pc' = "abort"
          ELSE issues' = issues /\ pc' = "finish"
  /\ ops' = Append(ops, "rebase theirs")
  /\ Say(verbose)
  /\ UNCHANGED <<dir, force, verbose, prev, projVars>>

(* the last step without the abort *)
RebaseAbort_Missing ==
  /\ pc = "abort"
  /\ pc' = "finish"
  /\ UNCHANGED <<repos, dir, force, verbose, issues, ops, obs, narrated, prev, projVars>>

(* line 98: git rebase --abort *)
RebaseAbort ==
  /\ pc = "abort"
  /\ \E o \in GitRebaseAbort(repos[dir]) :
       repos' = [repos EXCEPT ![dir] = o.repo]
  /\ ops' = Append(ops, "rebase --abort")
  /\ pc' = "finish"
  /\ UNCHANGED <<dir, force, verbose, issues, obs, narrated, prev, projVars>>

(* lines 100-103: the success line, return issues *)
Finish ==
  /\ pc = "finish"
  /\ Say(verbose /\ issues = <<>>)
  /\ pc' = "ret"
  /\ UNCHANGED <<repos, dir, force, verbose, issues, ops, obs, prev, projVars>>

SyncStep ==
  \/ NotARepo \/ CheckStashes \/ StashApply \/ DiffCheck \/ Discard \/ Shelve
  \/ Pull \/ FetchAll \/ ResetUpstream \/ RebaseTheirs \/ RebaseAbort \/ Finish

(* ------------------- one directory, synced repeatedly ------------------ *)

UpToDate(r) ==
  /\ r.git /\ Clean(r) /\ ~r.rebasing
  /\ ~r.ahead /\ r.base = r.remote /\ r.origin = r.remote

NoPrev == [valid |-> FALSE, force |-> FALSE, verbose |-> FALSE,
           qual |-> FALSE, noIssues |-> FALSE, exit |-> NoRepo]

InitRepos ==
  {NoRepo} \cup
  {[git |-> TRUE, stash |-> s, mods |-> m, unmerged |-> FALSE,
    rebasing |-> FALSE, base |-> b, ahead |-> a, origin |-> o, remote |-> t] :
     s \in {<<>>} \cup {<<e>> : e \in (SUBSET Mods) \ {{}}},
     m \in SUBSET Mods, a \in BOOLEAN,
     b \in 0..MaxCommit, o \in 0..MaxCommit, t \in 0..MaxCommit}

WellFormed(r) == r.base <= r.origin /\ r.origin <= r.remote

Init ==
  /\ \E r \in {x \in InitRepos : WellFormed(x)} :
       repos = [d \in Dirs |-> IF d = Main THEN r ELSE NoRepo]
  /\ dir = Main /\ pc = "idle"
  /\ force = FALSE /\ verbose = FALSE
  /\ issues = <<>> /\ ops = <<>> /\ obs = NoObs /\ narrated = FALSE
  /\ prev = NoPrev
  /\ ppc = "none" /\ idx = 0 /\ acc = <<>> /\ rets = <<>>
  /\ fs = [main |-> TRUE, custom |-> FALSE, isdir |-> [e \in Entries |-> FALSE]]

(* a run of the script on the one checkout: git_pull_with_resolve is called *)
CallSync ==
  /\ \E f \in BOOLEAN, v \in BOOLEAN : Enter(Main, f, v)
  /\ UNCHANGED <<prev, projVars>>

(* the call returns; what it did is remembered for the next call *)
Return ==
  /\ pc = "ret"
  /\ pc' = "idle"
  /\ prev' = [valid |-> TRUE, force |-> force, verbose |-> verbose,
              qual |-> UpToDate(obs.entry), noIssues |-> (issues = <<>>),
              exit |-> repos[dir]]
  /\ UNCHANGED <<repos, dir, force, verbose, issues, ops, obs, narrated, projVars>>

(* between runs somebody pushes to the remote *)
RemoteAdvance ==
  /\ pc = "idle"
  /\ repos[Main].git /\ repos[Main].remote < MaxCommit
  /\ repos' = [repos EXCEPT ![Main].remote = @ + 1]
  /\ UNCHANGED <<dir, pc, force, verbose, issues, ops, obs, narrated, prev, projVars>>

Next == SyncStep \/ CallSync \/ Return \/ RemoteAdvance

Spec == Init /\ [][Next]_vars

(* ---------------------------- update_project --------------------------- *)

RECURSIVE Flatten(_)
Flatten(rs) == IF rs = <<>> THEN <<>> ELSE Head(rs).issues \o Flatten(Tail(rs))

(* line 126: os.path.isdir(node_path) and node_dir != "__pycache__" *)
IsNodeDir(e) == fs.isdir[e] /\ e # "__pycache__"

ProjRepos ==
  {NoRepo,
   [NoRepo EXCEPT !.git = TRUE, !.base = MaxCommit, !.origin = MaxCommit,
                  !.remote = MaxCommit],
   [NoRepo EXCEPT !.git = TRUE, !.stash = <<{"m1"}>>, !.mods = {"m2"},
                  !.ahead = TRUE, !.remote = MaxCommit]}

ProjInit ==
  /\ repos \in [Dirs -> ProjRepos]
  /\ repos["__pycache__"] = NoRepo
  /\ dir = Main /\ pc = "idle"
  /\ force \in BOOLEAN /\ verbose \in BOOLEAN
  /\ issues = <<>> /\ ops = <<>> /\ obs = NoObs /\ narrated = FALSE
  /\ prev = NoPrev
  /\ ppc = "start" /\ idx = 1 /\ acc = <<>> /\ rets = <<>>
  /\ fs \in [main : BOOLEAN, custom : BOOLEAN, isdir : [Entries -> BOOLEAN]]

(* lines 106-117: issues = [], the main checkout is synced when it exists *)
ProjStart ==
  /\ ppc = "start"
  /\ IF fs.main
     THEN Enter(Main, force, verbose) /\ ppc' = "main_call"
     ELSE ppc' = "finished" /\ UNCHANGED syncVars
  /\ UNCHANGED <<prev, idx, acc, rets, fs>>

(* lines 117-124: issues.extend(...) for the main checkout, then the listing *)
ProjMainReturn ==
  /\ ppc = "main_call" /\ pc = "ret"
  /\ acc' = acc \o issues
  /\ rets' = Append(rets, [dir |-> dir, issues |-> issues])
  /\ pc' = "idle"
  /\ idx' = 1
  /\ ppc' = (IF fs.custom THEN "loop" ELSE "finished")
  /\ UNCHANGED <<repos, dir, force, verbose, issues, ops, obs, narrated, prev, fs>>

(* lines 124-126: an entry that is no directory, or is __pycache__ *)
ProjSkipEntry ==
  /\ ppc = "loop" /\ idx <= Len(Listing)
  /\ ~IsNodeDir(Listing[idx])
  /\ idx' = idx + 1
  /\ UNCHANGED <<syncVars, prev, ppc, acc, rets, fs>>

(* lines 124-129: a custom node directory is synced *)
ProjSyncEntry ==
  /\ ppc = "loop" /\ idx <= Len(Listing)
  /\ IsNodeDir(Listing[idx])
  /\ Enter(Listing[idx], force, verbose)
  /\ ppc' = "node_call"
  /\ UNCHANGED <<prev, idx, acc, rets, fs>>

(* the custom node's issues assigned instead of appended *)
ProjNodeReturn_Overwrites ==
  /\ ppc = "node_call" /\ pc = "ret"
  /\ acc' = issues
  /\ rets' = Append(rets, [dir |-> dir, issues |-> issues])
  /\ pc' = "idle"
  /\ idx' = idx + 1
  /\ ppc' = "loop"
  /\ UNCHANGED <<repos, dir, force, verbose, issues, ops, obs, narrated, prev, fs>>

(* line 129: issues.extend(...) for a custom node *)
ProjNodeReturn ==
  /\ ppc = "node_call" /\ pc = "ret"
  /\ acc' = acc \o issues
  /\ rets' = Append(rets, [dir |-> dir, issues |-> issues])
  /\ pc' = "idle"
  /\ idx' = idx + 1
  /\ ppc' = "loop"
  /\ UNCHANGED <<repos, dir, force, verbose, issues, ops, obs, narrated, prev, fs>>

(* lines 131-135: the listing is exhausted, return issues *)
ProjFinish ==
  /\ ppc = "loop" /\ idx > Len(Listing)
  /\ ppc' = "finished"
  /\ UNCHANGED <<syncVars, prev, idx, acc, rets, fs>>

ProjNext ==
  \/ SyncStep \/ ProjStart \/ ProjMainReturn \/ ProjSkipEntry \/ ProjSyncEntry
  \/ ProjNodeReturn \/ ProjFinish

(* the script is single-threaded and every step it can take is taken *)
ProjectSpec == ProjInit /\ [][ProjNext]_vars /\ WF_vars(ProjNext)

(* ------------------------------- claims -------------------------------- *)

Count(q, x) == Cardinality({k \in 1..Len(q) : q[k] = x})
Returned == pc = "ret"
Cur == repos[dir]

(* C1: when git_pull_with_resolve returns, no rebase is in progress in the
   directory, whatever the policy and the exit statuses were. *)
C1_NoRebaseAtReturn == Returned => ~Cur.rebasing

(* the local branch points at origin/<branch> *)
AtUpstreamTip(r) == ~r.rebasing /\ ~r.ahead /\ r.base = r.origin

(* C2: with force set and a failed pull --rebase, at return the local
   branch is at the tip of its upstream tracking branch and no issue is
   returned. *)
C2_ForceEndsAtUpstream ==
  (Returned /\ obs.entry.git /\ force /\ obs.pullRc = 1)
     => (AtUpstreamTip(Cur) /\ issues = <<>>)

(* C3: without force, when pull --rebase and the favor-incoming retry both
   fail, the "Unable to resolve conflicts" issue is returned exactly once,
   rebase --abort runs after the issue is appended, and no rebase is in
   progress at return. *)
C3_UnresolvedIsReportedAndAborted ==
  /\ pc = "abort" => (Count(issues, Unable(dir)) = 1
                      /\ Count(ops, "rebase --abort") = 0)
  /\ (Returned /\ ~force /\ obs.pullRc = 1 /\ obs.theirsRc = 1)
       => /\ Count(issues, Unable(dir)) = 1
          /\ Count(ops, "rebase --abort") = 1
          /\ ops[Len(ops)] = "rebase --abort"
          /\ ~Cur.rebasing

C3_Witness ==
  /\ Returned /\ ~force /\ obs.pullRc = 1 /\ obs.theirsRc = 1
  /\ obs.atPull.ahead /\ ~obs.atPull.rebasing /\ Clean(obs.atPull)

(* C4: with force set and a tree that differs from HEAD at the divergence
   check, the hard reset precedes the pull, the tree equals HEAD when the
   pull starts, and no "Failed to apply stashed changes" issue is returned. *)
C4_ForceDiscardsSilently ==
  /\ (pc = "pull" /\ force /\ obs.dirty)
       => (Clean(Cur) /\ ops[Len(ops)] = "reset --hard HEAD")
  /\ (Returned /\ force /\ obs.dirty)
       => Count(issues, FailedApply(dir)) = 0

(* C5: without force, a tree that differs from HEAD at the divergence check
   and a successful pull --rebase: at return the stash list is the list on
   entry with one new entry in front, which holds the local modifications. *)
C5_ShelvedNotDiscarded ==
  (Returned /\ ~force /\ obs.dirty /\ obs.pullRc = 0)
     => /\ Len(Cur.stash) = Len(obs.entry.stash) + 1
        /\ Head(Cur.stash) = obs.chkMods
        /\ obs.chkMods # {}
        /\ Tail(Cur.stash) = obs.entry.stash

C5_Witness ==
  /\ Returned /\ ~force /\ obs.dirty /\ obs.pullRc = 0
  /\ obs.entry.stash # <<>> /\ obs.entry.mods # {}

(* C6: for a directory without a .git entry the call returns no issue, runs
   no git command and leaves the directory's repository state as it was. *)
C6_NoMetadataNoOp ==
  (pc # "idle" /\ ~obs.entry.git)
     => (issues = <<>> /\ ops = <<>> /\ Cur = obs.entry)

C6_Witness == Returned /\ ~obs.entry.git /\ verbose /\ force

(* C8: two calls in a row with the same policy on a directory that is up to
   date and not divergent both return no issue, and the second leaves the
   repository (tree, branch, stash list) as the first left it. *)
C8_Idempotent ==
  (Returned /\ prev.valid /\ prev.qual /\ prev.force = force
     /\ prev.verbose = verbose /\ obs.entry = prev.exit)
     => (prev.noIssues /\ issues = <<>> /\ Cur = prev.exit)

(* C9: a failed stash apply is reported once, as the first issue, and the
   divergence check and pull --rebase still run, in that order. *)
C9_FailedApplyContinues ==
  (Returned /\ obs.applyRc = 1)
     => /\ Count(issues, FailedApply(dir)) = 1
        /\ issues[1] = FailedApply(dir)
        /\ Len(ops) >= 4
        /\ ops[2] = "stash apply" /\ ops[3] = "diff"
        /\ \E k \in 4..Len(ops) : ops[k] = "pull --rebase"
        /\ Count(ops, "diff") = 1 /\ Count(ops, "pull --rebase") = 1

C9_Witness ==
  /\ Returned /\ obs.applyRc = 1
  /\ Count(issues, Unable(dir)) = 1 /\ issues[2] = Unable(dir)

(* C10: a call without force runs no hard reset and no fetch --all; a call
   with force runs no stash, no favor-incoming rebase and no rebase abort. *)
C10_PolicySeparation ==
  /\ ~force => /\ Count(ops, "reset --hard HEAD") = 0
               /\ Count(ops, "reset --hard upstream") = 0
               /\ Count(ops, "fetch --all") = 0
  /\ force => /\ Count(ops, "stash") = 0
              /\ Count(ops, "rebase theirs") = 0
              /\ Count(ops, "rebase --abort") = 0

C10_Witness ==
  /\ Returned /\ prev.valid /\ prev.force /\ ~force
  /\ obs.dirty /\ obs.pullRc = 1 /\ obs.theirsRc = 1
  /\ Len(ops) = 7

(* the directories update_project has to sync, in order *)
ExpectedDirs ==
  IF fs.main
  THEN <<Main>> \o (IF fs.custom THEN SelectSeq(Listing, IsNodeDir) ELSE <<>>)
  ELSE <<>>

C7_AtFinish ==
  ppc = "finished"
     => /\ [k \in 1..Len(rets) |-> rets[k].dir] = ExpectedDirs
        /\ acc = Flatten(rets)

(* C7: update_project always finishes: the main checkout is synced first,
   then every custom node directory other than __pycache__ exactly once,
   whatever the git commands return, and the issues it returns are the
   issues of the calls concatenated in that order. *)
C7_TraversalCompletes == []C7_AtFinish /\ <>(ppc = "finished")

C7_Witness ==
  /\ ppc = "finished" /\ Len(rets) = 3
  /\ Count(rets[1].issues, Unable(Main)) = 1
  /\ rets[2].dir = "nodeA" /\ rets[3].dir = "nodeB"
  /\ rets[3].issues # <<>>

====
